---- MODULE Spec2Model ----
(***************************************************************************)
(* Model of hikka/inline/utils.py: the markup compiler (_generate_markup,  *)
(* _normalize_markup), the edit protocol (_edit_unit) and the unit         *)
(* lifecycle (_unload_unit, _delete_unit_message), together with the two   *)
(* process-wide maps they share, self._units and self._custom_map.         *)
(*                                                                         *)
(* Python values are modelled as tagged records: a dict button is a record *)
(* with tag "dict" whose missing keys hold Absent, a list is a record with *)
(* tag "list" and a sequence of items, any other value met in a row has    *)
(* tag "str".  Button dicts are mutable and shared between the caller, the *)
(* task and the unit, so the matrices live in a heap (matrices) and are    *)
(* referred to by name.                                                    *)
(***************************************************************************)
EXTENDS Integers, Sequences, FiniteSets, TLC

VARIABLES units, custom_map, matrices, nextTok, tasks, hookCalls, compiled, ops

vars == <<units, custom_map, matrices, nextTok, tasks, hookCalls, compiled, ops>>

(***************************************************************************)
(* Bounds of the model.                                                    *)
(***************************************************************************)
\* rate-limited answers the transport gives to one edit call
MaxRetries == 2
\* the backoff durations a rate-limited answer may carry: 1..MaxDelay
MaxDelay == 2
\* operations invoked one after another in one run
MaxOps == 2

(***************************************************************************)
(* Python values.                                                          *)
(***************************************************************************)
Absent == "<absent>"
PyNone == "None"
\* "_callback_data" / "_switch_query" not in button
NoToken == 0

Button(text, url, callback, input, data, force_me) ==
    [tag |-> "dict", text |-> text, url |-> url, callback |-> callback,
     input |-> input, data |-> data,
     switch_inline_query_current_chat |-> Absent,
     switch_inline_query |-> Absent,
     always_allow |-> Absent, args |-> Absent, kwargs |-> Absent,
     force_me |-> force_me, disable_security |-> Absent,
     _callback_data |-> NoToken, _switch_query |-> NoToken]

NotDict == [tag |-> "str"]

List(items) == [tag |-> "list", items |-> items]

\* the fresh [[]] that _edit_unit builds when reply_markup is None
EmptyMarkup == List(<<List(<<>>)>>)

\* utils.check_url: whether the string is a well-formed URL
GoodUrls == {"http://h/a.jpg", "http://h/a.gif", "http://h/a.mp4"}

check_url(u) == u \in GoodUrls

\* truthiness of a dict entry read with button.get(key, False)
Truthy(v) == v \notin {Absent, "False", PyNone, ""}

(***************************************************************************)
(* _normalize_markup                                                       *)
(***************************************************************************)
_normalize_markup(reply_markup) ==
    IF reply_markup.tag = "dict"
    THEN List(<<List(<<reply_markup>>)>>)
    ELSE IF /\ reply_markup.tag = "list"
            /\ \E i \in 1..Len(reply_markup.items) :
                   reply_markup.items[i].tag = "dict"
         THEN List(<<reply_markup>>)
         ELSE reply_markup

\* the rows of a normalized markup, as sequences of buttons
RowsOf(map_) == [i \in 1..Len(map_.items) |-> map_.items[i].items]

RECURSIVE Flatten(_)
Flatten(rows) ==
    IF rows = <<>> THEN <<>> ELSE Head(rows) \o Flatten(Tail(rows))

RECURSIVE Unflatten(_, _)
\* the rows again, their buttons taken in order from flat
Unflatten(rows, flat) ==
    IF rows = <<>> THEN <<>>
    ELSE LET n == Len(Head(rows))
         IN  <<SubSeq(flat, 1, n)>>
                 \o Unflatten(Tail(rows), SubSeq(flat, n + 1, Len(flat)))

\* The caller's object after its button dicts were mutated in place: the
\* normalized view shares the dicts with the object it was built from.
WriteBack(obj, flat) ==
    IF obj.tag = "dict" THEN flat[1]
    ELSE IF _normalize_markup(obj) = obj
         THEN List([i \in 1..Len(obj.items) |->
                      List(Unflatten(RowsOf(obj), flat)[i])])
         ELSE List(flat)

(***************************************************************************)
(* _generate_markup, first loop: mint the tokens (lines 57-70).            *)
(* utils.rand is modelled as drawing the next unused token.                *)
(***************************************************************************)
rand(tok) == tok

\* a compile that draws a new callback token whether or not one is there
MintCallback_Always(button, tok) == button.callback # Absent

MintCallback(button, tok) ==
    button.callback # Absent /\ button._callback_data = NoToken

MintSwitch(button) ==
    button.input # Absent /\ button._switch_query = NoToken

RECURSIVE MintLoop(_, _, _, _)
\* st = [flat, tok, setup_callbacks, bad]; bad: a non-dict button was met and
\* the compile returns None, the buttons before it keeping their new tokens
MintLoop(flat, i, tok, setup) ==
    IF i > Len(flat)
    THEN [flat |-> flat, tok |-> tok, setup_callbacks |-> setup, bad |-> FALSE]
    ELSE IF flat[i].tag # "dict"
    THEN [flat |-> flat, tok |-> tok, setup_callbacks |-> setup, bad |-> TRUE]
    ELSE LET b   == flat[i]
             mc  == MintCallback(b, tok)
             b1  == IF mc THEN [b EXCEPT !._callback_data = rand(tok)] ELSE b
             t1  == IF mc THEN tok + 1 ELSE tok
             ms  == MintSwitch(b1)
             b2  == IF ms THEN [b1 EXCEPT !._switch_query = rand(t1)] ELSE b1
             t2  == IF ms THEN t1 + 1 ELSE t1
         IN  MintLoop([flat EXCEPT ![i] = b2], i + 1, t2, setup \/ mc)

(***************************************************************************)
(* _generate_markup, second loop: translate the buttons (lines 72-172).    *)
(***************************************************************************)
Control(text, kind, str, tok) ==
    [text |-> text, kind |-> kind, str |-> str, tok |-> tok]

\* the entry written to self._custom_map (lines 98-125)
Registration(button) ==
    [handler |-> button.callback,
     always_allow |-> IF Truthy(button.always_allow)
                      THEN button.always_allow ELSE Absent,
     args |-> IF Truthy(button.args) THEN button.args ELSE Absent,
     kwargs |-> IF Truthy(button.kwargs) THEN button.kwargs ELSE Absent,
     force_me |-> IF Truthy(button.force_me) THEN "True" ELSE Absent,
     disable_security |-> IF Truthy(button.disable_security)
                          THEN "True" ELSE Absent]

\* what one button does to the line: "skip", "add" or "KeyError"
Translate(button) ==
    IF button.url # Absent
    THEN IF ~check_url(button.url) THEN [act |-> "skip"]
         ELSE IF button.text = Absent THEN [act |-> "KeyError"]
         ELSE [act |-> "add",
               ctl |-> Control(button.text, "url", button.url, NoToken)]
    ELSE IF button.callback # Absent
    THEN IF button.text = Absent THEN [act |-> "KeyError"]
         ELSE [act |-> "add",
               ctl |-> Control(button.text, "callback_data", "",
                               button._callback_data)]
    ELSE IF button.input # Absent
    THEN IF button.text = Absent THEN [act |-> "KeyError"]
         ELSE [act |-> "add",
               ctl |-> Control(button.text,
                               "switch_inline_query_current_chat", " ",
                               button._switch_query)]
    ELSE IF button.data # Absent
    THEN IF button.text = Absent THEN [act |-> "KeyError"]
         ELSE [act |-> "add",
               ctl |-> Control(button.text, "callback_data", button.data,
                               NoToken)]
    ELSE IF button.switch_inline_query_current_chat # Absent
    THEN IF button.text = Absent THEN [act |-> "KeyError"]
         ELSE [act |-> "add",
               ctl |-> Control(button.text,
                               "switch_inline_query_current_chat",
                               button.switch_inline_query_current_chat,
                               NoToken)]
    ELSE IF button.switch_inline_query # Absent
    THEN IF button.text = Absent THEN [act |-> "KeyError"]
         ELSE [act |-> "add",
               ctl |-> Control(button.text,
                               "switch_inline_query_current_chat",
                               button.switch_inline_query, NoToken)]
    ELSE [act |-> "skip"]

\* whether translating the button writes its registration (lines 90-97)
Registers(button, setup_callbacks) ==
    /\ button.url = Absent
    /\ button.callback # Absent
    /\ button.text # Absent
    /\ setup_callbacks

RECURSIVE TranslateRow_Prepending(_, _, _, _, _)
\* a row translation that puts each new control in front of the line
TranslateRow_Prepending(row, j, line, map, setup) ==
    IF j > Len(row) THEN [ok |-> TRUE, line |-> line, map |-> map]
    ELSE LET tr == Translate(row[j])
         IN  IF tr.act = "KeyError"
             THEN [ok |-> FALSE, line |-> line, map |-> map]
             ELSE TranslateRow_Prepending(
                    row, j + 1,
                    IF tr.act = "add" THEN <<tr.ctl>> \o line ELSE line,
                    IF Registers(row[j], setup)
                    THEN [k \in DOMAIN map \cup {row[j]._callback_data} |->
                            IF k = row[j]._callback_data
                            THEN Registration(row[j]) ELSE map[k]]
                    ELSE map,
                    setup)

RECURSIVE TranslateRow(_, _, _, _, _)
TranslateRow(row, j, line, map, setup) ==
    IF j > Len(row) THEN [ok |-> TRUE, line |-> line, map |-> map]
    ELSE LET tr == Translate(row[j])
         IN  IF tr.act = "KeyError"
             THEN [ok |-> FALSE, line |-> line, map |-> map]
             ELSE TranslateRow(
                    row, j + 1,
                    IF tr.act = "add" THEN Append(line, tr.ctl) ELSE line,
                    IF Registers(row[j], setup)
                    THEN [k \in DOMAIN map \cup {row[j]._callback_data} |->
                            IF k = row[j]._callback_data
                            THEN Registration(row[j]) ELSE map[k]]
                    ELSE map,
                    setup)

RECURSIVE TranslateRows(_, _, _, _, _)
TranslateRows(rows, i, kb, map, setup) ==
    IF i > Len(rows) THEN [ok |-> TRUE, kb |-> kb, map |-> map]
    ELSE LET r == TranslateRow(rows[i], 1, <<>>, map, setup)
         IN  IF ~r.ok THEN [ok |-> FALSE, kb |-> kb, map |-> r.map]
             ELSE TranslateRows(rows, i + 1, Append(kb, r.line), r.map, setup)

(***************************************************************************)
(* _generate_markup on a literal markup object.  The value returned is     *)
(* [tag |-> "None"], [tag |-> "False"] or [tag |-> "markup", rows |-> kb]; *)
(* obj is the caller's object after the call, map the registry after it.   *)
(***************************************************************************)
Falsy(obj) == obj.tag = "list" /\ obj.items = <<>>

_generate_markup(obj, map, tok) ==
    IF Falsy(obj)
    THEN [ret |-> [tag |-> "None"], obj |-> obj, map |-> map, tok |-> tok]
    ELSE LET map_ == _normalize_markup(obj)
             m    == MintLoop(Flatten(RowsOf(map_)), 1, tok, FALSE)
             obj1 == WriteBack(obj, m.flat)
             rows == Unflatten(RowsOf(map_), m.flat)
             t    == TranslateRows(rows, 1, <<>>, map, m.setup_callbacks)
         IN  IF m.bad
             THEN [ret |-> [tag |-> "None"], obj |-> obj1, map |-> map,
                   tok |-> m.tok]
             ELSE IF ~t.ok
             THEN [ret |-> [tag |-> "False"], obj |-> obj1, map |-> t.map,
                   tok |-> m.tok]
             ELSE [ret |-> [tag |-> "markup", rows |-> t.kb], obj |-> obj1,
                   map |-> t.map, tok |-> m.tok]

(***************************************************************************)
(* The state.                                                              *)
(*   units       self._units: uid -> unit; a uid not in DOMAIN units is    *)
(*               not in the store.  unit.buttons names a heap matrix.      *)
(*   custom_map  self._custom_map: callback token -> registration          *)
(*   matrices    the heap of button matrices the callers hold              *)
(*   nextTok     the next token utils.rand draws                           *)
(*   tasks       the coroutines: where each is suspended, its arguments,   *)
(*               its result, and a log of what it asked of the transport   *)
(*   hookCalls   how often each unit's on_unload hook was invoked          *)
(*   compiled    what the last compile of each heap matrix returned, and   *)
(*               how often the matrix was compiled                         *)
(*   ops         operations invoked so far                                 *)
(***************************************************************************)
Tasks == {"t1", "t2"}

\* the caller that issues its operations one after another
Callers == {"t1"}

UIDs == {"u1", "u2", "u3"}

\* a uid no unit was ever stored under
MissingUid == "u9"

MatIds == {"m1", "m2"}

NoQuery == [tag |-> "None", inline_message_id |-> PyNone]

Query(imid) == [tag |-> "CallbackQuery", inline_message_id |-> imid]

Deref(ref) == IF ref = "empty" THEN EmptyMarkup ELSE matrices[ref]

Compiled(ret, n) == [ret |-> ret, n |-> n]

NoCall ==
    [method |-> "none", text |-> PyNone, inline_message_id |-> PyNone,
     disable_web_page_preview |-> PyNone,
     media |-> [type |-> "none", media |-> PyNone, caption |-> PyNone],
     reply_markup |-> [tag |-> "pending"]]

IdleTask ==
    [pc |-> "idle", op |-> "none", kw |-> PyNone, result |-> "pending",
     ret |-> [tag |-> "pending"], nCalls |-> 0, nSignals |-> 0,
     nSleeps |-> 0, sleepFor |-> 0, lastTimeout |-> 0, nAnswers |-> 0,
     answer |-> "none", firstCall |-> NoCall, lastCall |-> NoCall,
     exc |-> "none", uid |-> PyNone, pre |-> PyNone]

\* what the store and the registry held when the operation was invoked
Snapshot == [units |-> units, custom_map |-> custom_map]

(***************************************************************************)
(* _edit_unit: validation (lines 250-294).                                 *)
(***************************************************************************)
\* a value that is not a str (an int, say); every other value here is a str
NonStr == "<int>"

IsStr(v) == v # NonStr

\* Python truthiness of an argument: None, "" and False are falsy
Set(v) == v \notin {PyNone, "", "False"}

BadUrlArg(v) == Set(v) /\ (~IsStr(v) \/ ~check_url(v))

media_params(kw) ==
    <<kw.photo = PyNone, kw.gif = PyNone, kw.file = PyNone,
      kw.video = PyNone, kw.audio = PyNone>>

CountFalse(seq) == Cardinality({i \in DOMAIN seq : ~seq[i]})

\* isinstance(file, str, bytes, io.BytesIO) is called with four arguments:
\* the builtin takes two and raises TypeError whenever the line is evaluated
FileCheck(kw) == IF Set(kw.file) THEN "TypeError" ELSE "pass"

\* "pass", "False" (the failure value is returned) or the exception raised
Validate(kw) ==
    IF ~IsStr(kw.text) THEN "False"
    ELSE IF BadUrlArg(kw.photo) THEN "False"
    ELSE IF BadUrlArg(kw.gif) THEN "False"
    ELSE IF FileCheck(kw) # "pass" THEN FileCheck(kw)
    ELSE IF Set(kw.file) /\ ~Set(kw.mime_type) THEN "False"
    ELSE IF BadUrlArg(kw.video) THEN "False"
    ELSE IF BadUrlArg(kw.audio) THEN "False"
    ELSE IF CountFalse(media_params(kw)) > 1 THEN "False"
    ELSE "pass"

(***************************************************************************)
(* _edit_unit: the unit's update and the resolution of inline_message_id   *)
(* (lines 245-248 and 296-326).                                            *)
(***************************************************************************)
\* reply_markup after lines 245-248, as a heap reference: a list or dict is
\* normalized (sharing its button dicts), None becomes a fresh [[]]
NormalizedRef(kw) == IF kw.reply_markup = PyNone THEN "empty" ELSE kw.reply_markup

IsBool(v) == v \in {"True", "False"}

IsList(v) == v \notin {PyNone, "True", "False"}

UnitFound(kw, us) == kw.unit_uid # PyNone /\ kw.unit_uid \in DOMAIN us

\* the store after lines 296-308
UpdateUnit(kw, us) ==
    IF UnitFound(kw, us)
    THEN [us EXCEPT ![kw.unit_uid] =
            [@ EXCEPT !.buttons = NormalizedRef(kw),
                      !.force_me = IF IsBool(kw.force_me)
                                   THEN kw.force_me ELSE @,
                      !.disable_security = IF IsBool(kw.disable_security)
                                           THEN kw.disable_security ELSE @,
                      !.always_allow = IF IsList(kw.always_allow)
                                       THEN kw.always_allow ELSE @]]
    ELSE us

\* unit.get("inline_message_id", False) of the unit found, or of {}
StoredId(kw, us) ==
    IF UnitFound(kw, us) /\ us[kw.unit_uid].inline_message_id # Absent
    THEN us[kw.unit_uid].inline_message_id
    ELSE "False"

\* a resolution that prefers the unit's stored id to the explicit argument
Resolve_StoredFirst(kw, us) ==
    IF Set(StoredId(kw, us)) THEN StoredId(kw, us)
    ELSE IF Set(kw.inline_message_id) THEN kw.inline_message_id
    ELSE IF kw.query.tag = "None" THEN "AttributeError"
    ELSE kw.query.inline_message_id

\* lines 312-316: a or b or query.inline_message_id; reading the attribute of
\* query = None raises AttributeError
Resolve(kw, us) ==
    IF Set(kw.inline_message_id) THEN kw.inline_message_id
    ELSE IF Set(StoredId(kw, us)) THEN StoredId(kw, us)
    ELSE IF kw.query.tag = "None" THEN "AttributeError"
    ELSE kw.query.inline_message_id

(***************************************************************************)
(* _edit_unit: the media payload (lines 356-376).  urlparse(media) reads   *)
(* the local `media` before it is assigned: UnboundLocalError is caught by *)
(* `except Exception` and ext is None in every call.                       *)
(***************************************************************************)
Ext(kw) == PyNone

Reclassify(kw) ==
    IF kw.photo # PyNone /\ Ext(kw) \in {".gif", ".mp4"}
    THEN [kw EXCEPT !.gif = kw.photo, !.photo = PyNone]
    ELSE kw

InputMedia(type, media, caption) ==
    [type |-> type, media |-> media, caption |-> caption]

MediaOf(kw0) ==
    LET kw == Reclassify(kw0)
    IN  IF kw.file # PyNone THEN InputMedia("document", kw.file, kw.text)
        ELSE IF kw.photo # PyNone THEN InputMedia("photo", kw.photo, kw.text)
        ELSE IF kw.audio # PyNone THEN InputMedia("audio", kw.audio, kw.text)
        ELSE IF kw.video # PyNone THEN InputMedia("video", kw.video, kw.text)
        ELSE InputMedia("animation", kw.gif, kw.text)

AllNone(kw) == CountFalse(media_params(kw)) = 0

\* the transport call of lines 330-339 or 379-387
EditCallOf(kw, imid, markup) ==
    IF AllNone(kw)
    THEN [method |-> "edit_message_text", text |-> kw.text,
          inline_message_id |-> imid,
          disable_web_page_preview |-> kw.disable_web_page_preview,
          media |-> InputMedia("none", PyNone, PyNone),
          reply_markup |-> markup]
    ELSE [method |-> "edit_message_media", text |-> PyNone,
          inline_message_id |-> imid,
          disable_web_page_preview |-> PyNone,
          media |-> MediaOf(kw),
          reply_markup |-> markup]

(***************************************************************************)
(* _edit_unit, from its entry to its first suspension or its return.       *)
(***************************************************************************)
Finish(task, result, exc) ==
    [task EXCEPT !.pc = "done", !.result = result, !.exc = exc]

\* utils.get_kwargs(): the arguments the retry is called with
get_kwargs(task) == task.kw

\* the compile of lines 334-338: reply_markup is a list by now, so the
\* markup compiled is always the normalized argument
CompileArg(kw) == NormalizedRef(kw)

EditRun(t, kw, task) ==
    LET v == Validate(kw)
        us1 == UpdateUnit(kw, units)
        imid == Resolve(kw, us1)
        ref == CompileArg(kw)
        g == _generate_markup(Deref(ref), custom_map, nextTok)
        call == EditCallOf(kw, imid, g.ret)
    IN  IF v # "pass"
        THEN /\ tasks' = [tasks EXCEPT ![t] =
                   IF v = "False" THEN Finish(task, "False", "none")
                   ELSE Finish(task, "raise", v)]
             /\ UNCHANGED <<units, custom_map, matrices, nextTok, compiled>>
        ELSE IF imid = "AttributeError" \/ ~Set(imid)
        THEN /\ units' = us1
             /\ tasks' = [tasks EXCEPT ![t] =
                   IF imid = "AttributeError"
                   THEN Finish(task, "raise", "AttributeError")
                   ELSE Finish(task, "False", "none")]
             /\ UNCHANGED <<custom_map, matrices, nextTok, compiled>>
        ELSE /\ units' = us1
             /\ custom_map' = g.map
             /\ nextTok' = g.tok
             /\ matrices' = IF ref = "empty" THEN matrices
                            ELSE [matrices EXCEPT ![ref] = g.obj]
             /\ compiled' = IF ref = "empty" THEN compiled
                            ELSE [compiled EXCEPT ![ref] = Compiled(g.ret, @.n + 1)]
             /\ tasks' = [tasks EXCEPT ![t] =
                   [task EXCEPT !.pc = "await_edit",
                                !.nCalls = @ + 1,
                                !.firstCall = IF task.nCalls = 0 THEN call ELSE @,
                                !.lastCall = call]]

\* a caller invokes edit(**kw)
EditCall(t, kw) ==
    /\ tasks[t].pc = "idle"
    /\ ops < MaxOps
    /\ ops' = ops + 1
    /\ UNCHANGED hookCalls
    /\ EditRun(t, kw, [IdleTask EXCEPT !.op = "edit", !.kw = kw,
                                       !.pre = Snapshot])

\* the transport call returns normally: line 354, or the end of the function
EditOk(t) ==
    /\ tasks[t].pc = "await_edit"
    /\ tasks' = [tasks EXCEPT ![t] =
          Finish([@ EXCEPT !.answer = "ok"], "None", "none")]
    /\ UNCHANGED <<units, custom_map, matrices, nextTok, hookCalls, compiled, ops>>

\* a backoff of one second whatever the transport asked for
SleepArg_Fixed(timeout) == 1

\* asyncio.sleep(e.timeout), lines 346 and 390
SleepArg(timeout) == timeout

\* the transport raises RetryAfter(timeout = d): lines 344-346, 388-390
EditRetryAfter(t, d) ==
    /\ tasks[t].pc = "await_edit"
    /\ tasks[t].nSignals < MaxRetries
    /\ tasks' = [tasks EXCEPT ![t] =
          [@ EXCEPT !.pc = "sleeping", !.nSignals = @ + 1,
                    !.answer = "RetryAfter",
                    !.lastTimeout = d, !.sleepFor = SleepArg(d)]]
    /\ UNCHANGED <<units, custom_map, matrices, nextTok, hookCalls, compiled, ops>>

\* a retry that gives up after the sleep instead of calling again
Wake_GivingUp(t) ==
    /\ tasks[t].pc = "sleeping"
    /\ tasks' = [tasks EXCEPT ![t] =
          Finish([@ EXCEPT !.nSleeps = @ + 1, !.sleepFor = 0,
                           !.lastTimeout = 0], "False", "none")]
    /\ UNCHANGED <<units, custom_map, matrices, nextTok, hookCalls, compiled, ops>>

\* the sleep is over: lines 347 and 391 call _edit_unit again
Wake(t) ==
    /\ tasks[t].pc = "sleeping"
    /\ UNCHANGED <<hookCalls, ops>>
    /\ EditRun(t, get_kwargs(tasks[t]),
               [tasks[t] EXCEPT !.nSleeps = @ + 1, !.sleepFor = 0,
                                !.lastTimeout = 0])

\* whether an exception escaping query.answer() is swallowed: lines 342
\* (contextlib.suppress(InvalidQueryID)) and 349, 393 (suppress(Exception))
Suppressed(answer, exc) ==
    IF answer = "MessageNotModified" THEN exc = "InvalidQueryID" ELSE TRUE

\* the transport raises MessageNotModified: lines 340-343; the media edit
\* has no handler for it
EditNotModified(t) ==
    /\ tasks[t].pc = "await_edit"
    /\ tasks' = [tasks EXCEPT ![t] =
          IF tasks[t].lastCall.method = "edit_message_media"
          THEN Finish([@ EXCEPT !.answer = "MessageNotModified"],
                      "raise", "MessageNotModified")
          ELSE IF tasks[t].kw.query.tag = "None"
          THEN Finish([@ EXCEPT !.answer = "MessageNotModified"],
                      "None", "none")
          ELSE [@ EXCEPT !.pc = "await_answer", !.nAnswers = @ + 1,
                         !.answer = "MessageNotModified"]]
    /\ UNCHANGED <<units, custom_map, matrices, nextTok, hookCalls, compiled, ops>>

\* the transport raises MessageIdInvalid: lines 348-352, 392-396; with
\* query = None the AttributeError of query.answer is suppressed
EditIdInvalid(t) ==
    /\ tasks[t].pc = "await_edit"
    /\ tasks' = [tasks EXCEPT ![t] =
          IF tasks[t].kw.query.tag = "None"
          THEN IF Suppressed("MessageIdInvalid", "AttributeError")
               THEN Finish([@ EXCEPT !.answer = "MessageIdInvalid"],
                           "None", "none")
               ELSE Finish([@ EXCEPT !.answer = "MessageIdInvalid"],
                           "raise", "AttributeError")
          ELSE [@ EXCEPT !.pc = "await_answer", !.nAnswers = @ + 1,
                         !.answer = "MessageIdInvalid"]]
    /\ UNCHANGED <<units, custom_map, matrices, nextTok, hookCalls, compiled, ops>>

\* the transport raises anything else: no handler, the caller gets it
EditError(t) ==
    /\ tasks[t].pc = "await_edit"
    /\ tasks' = [tasks EXCEPT ![t] =
          Finish([@ EXCEPT !.answer = "error"], "raise", "TelegramAPIError")]
    /\ UNCHANGED <<units, custom_map, matrices, nextTok, hookCalls, compiled, ops>>

\* query.answer() returns
AnswerOk(t) ==
    /\ tasks[t].pc = "await_answer"
    /\ tasks' = [tasks EXCEPT ![t] = Finish(@, "None", "none")]
    /\ UNCHANGED <<units, custom_map, matrices, nextTok, hookCalls, compiled, ops>>

\* query.answer() raises exc
AnswerRaises(t, exc) ==
    /\ tasks[t].pc = "await_answer"
    /\ tasks' = [tasks EXCEPT ![t] =
          IF Suppressed(tasks[t].answer, exc)
          THEN Finish(@, "None", "none")
          ELSE Finish(@, "raise", exc)]
    /\ UNCHANGED <<units, custom_map, matrices, nextTok, hookCalls, compiled, ops>>

\* the caller has its result; the task slot is free again
Return(t) ==
    /\ tasks[t].pc = "done"
    /\ tasks' = [tasks EXCEPT ![t] = IdleTask]
    /\ UNCHANGED <<units, custom_map, matrices, nextTok, hookCalls, compiled, ops>>

(***************************************************************************)
(* _unload_unit (lines 416-435): no await inside, so it runs in one step.  *)
(***************************************************************************)
HasHook(unit) == unit.on_unload # Absent

\* the lines 423-426 inside the try: a missing uid raises KeyError at the
\* subscript, a hook may raise; "ok" when the try reaches line 428
UnloadTry(uid, us) ==
    IF uid \notin DOMAIN us THEN "KeyError"
    ELSE IF HasHook(us[uid]) /\ us[uid].on_unload = "raises" THEN "HookError"
    ELSE "ok"

\* the store after _unload_unit: line 429 is reached only without exception
UnloadStore(uid, us) ==
    IF UnloadTry(uid, us) = "ok"
    THEN [u \in DOMAIN us \ {uid} |-> us[u]]
    ELSE us

\* an unload that reports success for a uid that was not stored
UnloadResult_AbsentOk(uid, us) ==
    IF UnloadTry(uid, us) \in {"ok", "KeyError"} THEN "True" ELSE "False"

UnloadResult(uid, us) == IF UnloadTry(uid, us) = "ok" THEN "True" ELSE "False"

HookInvoked(uid, us) == uid \in DOMAIN us /\ HasHook(us[uid])

HooksAfter(uid, us, hc) ==
    IF HookInvoked(uid, us) THEN [hc EXCEPT ![uid] = @ + 1] ELSE hc

\* an Unload that also reclaims the tokens of the unloaded unit's buttons
Unload_Reclaiming(t, uid) ==
    /\ tasks[t].pc = "idle"
    /\ ops < MaxOps
    /\ ops' = ops + 1
    /\ units' = UnloadStore(uid, units)
    /\ hookCalls' = HooksAfter(uid, units, hookCalls)
    /\ tasks' = [tasks EXCEPT ![t] =
          Finish([IdleTask EXCEPT !.op = "unload", !.uid = uid,
                                  !.pre = Snapshot],
                 UnloadResult(uid, units), "none")]
    /\ custom_map' =
          IF uid \in DOMAIN units /\ uid \notin DOMAIN units'
          THEN LET flat == Flatten(RowsOf(Deref(units[uid].buttons)))
                   gone == {flat[i]._callback_data : i \in DOMAIN flat}
               IN  [k \in DOMAIN custom_map \ gone |-> custom_map[k]]
          ELSE custom_map
    /\ UNCHANGED <<matrices, nextTok, compiled>>

Unload(t, uid) ==
    /\ tasks[t].pc = "idle"
    /\ ops < MaxOps
    /\ ops' = ops + 1
    /\ units' = UnloadStore(uid, units)
    /\ hookCalls' = HooksAfter(uid, units, hookCalls)
    /\ tasks' = [tasks EXCEPT ![t] =
          Finish([IdleTask EXCEPT !.op = "unload", !.uid = uid,
                                  !.pre = Snapshot],
                 UnloadResult(uid, units), "none")]
    /\ UNCHANGED <<custom_map, matrices, nextTok, compiled>>

(***************************************************************************)
(* _delete_unit_message (lines 398-414).                                   *)
(***************************************************************************)
\* lines 405-408: the arguments are read from the store (KeyError for a uid
\* not in it, caught at 411), then the remote delete is awaited
DeleteCall(t, uid) ==
    /\ tasks[t].pc = "idle"
    /\ ops < MaxOps
    /\ ops' = ops + 1
    /\ tasks' = [tasks EXCEPT ![t] =
          LET task == [IdleTask EXCEPT !.op = "delete", !.uid = uid,
                                       !.pre = Snapshot]
          IN  IF uid \notin DOMAIN units
              THEN Finish(task, "False", "none")
              ELSE [task EXCEPT !.pc = "await_delete", !.nCalls = 1]]
    /\ UNCHANGED <<units, custom_map, matrices, nextTok, hookCalls, compiled>>

\* what _delete_unit_message returns once the remote delete succeeded: the
\* value _unload_unit returns at line 410 is dropped
DeleteResult(unloaded) == "True"

\* delete_messages returned: line 410 unloads, line 414 returns True
DeleteOk(t) ==
    /\ tasks[t].pc = "await_delete"
    /\ units' = UnloadStore(tasks[t].uid, units)
    /\ hookCalls' = HooksAfter(tasks[t].uid, units, hookCalls)
    /\ tasks' = [tasks EXCEPT ![t] =
          Finish([@ EXCEPT !.answer = "deleted"],
                 DeleteResult(UnloadResult(tasks[t].uid, units)), "none")]
    /\ UNCHANGED <<custom_map, matrices, nextTok, compiled, ops>>

\* a Delete that unloads the unit although the remote delete failed
DeleteFail_Unloading(t) ==
    /\ tasks[t].pc = "await_delete"
    /\ units' = UnloadStore(tasks[t].uid, units)
    /\ hookCalls' = HooksAfter(tasks[t].uid, units, hookCalls)
    /\ tasks' = [tasks EXCEPT ![t] =
          Finish([@ EXCEPT !.answer = "delete_failed"], "False", "none")]
    /\ UNCHANGED <<custom_map, matrices, nextTok, compiled, ops>>

\* delete_messages raised: lines 411-412
DeleteFail(t) ==
    /\ tasks[t].pc = "await_delete"
    /\ tasks' = [tasks EXCEPT ![t] =
          Finish([@ EXCEPT !.answer = "delete_failed"], "False", "none")]
    /\ UNCHANGED <<units, custom_map, matrices, nextTok, hookCalls, compiled, ops>>

(***************************************************************************)
(* generate_markup called on its own (line 176), on a caller's matrix or   *)
(* on a unit's uid (lines 49-53).                                          *)
(***************************************************************************)
Compile(t, ref) ==
    /\ tasks[t].pc = "idle"
    /\ ops < MaxOps
    /\ ops' = ops + 1
    /\ LET g == _generate_markup(Deref(ref), custom_map, nextTok)
       IN  /\ custom_map' = g.map
           /\ nextTok' = g.tok
           /\ matrices' = [matrices EXCEPT ![ref] = g.obj]
           /\ compiled' = [compiled EXCEPT ![ref] = Compiled(g.ret, @.n + 1)]
           /\ tasks' = [tasks EXCEPT ![t] =
                 [Finish([IdleTask EXCEPT !.op = "compile", !.uid = ref,
                                          !.pre = Snapshot],
                         "ret", "none") EXCEPT !.ret = g.ret]]
    /\ UNCHANGED <<units, hookCalls>>

CompileUnit(t, uid) ==
    /\ tasks[t].pc = "idle"
    /\ ops < MaxOps
    /\ ops' = ops + 1
    /\ LET task == [IdleTask EXCEPT !.op = "compile", !.uid = uid,
                                    !.pre = Snapshot]
           ref == units[uid].buttons
           g == _generate_markup(Deref(ref), custom_map, nextTok)
       IN  IF uid \notin DOMAIN units
           THEN /\ tasks' = [tasks EXCEPT ![t] = Finish(task, "raise", "KeyError")]
                /\ UNCHANGED <<custom_map, matrices, nextTok, compiled>>
           ELSE /\ custom_map' = g.map
                /\ nextTok' = g.tok
                /\ matrices' = IF ref = "empty" THEN matrices
                               ELSE [matrices EXCEPT ![ref] = g.obj]
                /\ compiled' = IF ref = "empty" THEN compiled
                               ELSE [compiled EXCEPT ![ref] = Compiled(g.ret, @.n + 1)]
                /\ tasks' = [tasks EXCEPT ![t] =
                      [Finish(task, "ret", "none") EXCEPT !.ret = g.ret]]
    /\ UNCHANGED <<units, hookCalls>>

(***************************************************************************)
(* The matrix is the caller's own object: _generate_markup keeps no copy   *)
(* and writes the tokens into the caller's dicts (lines 49-70).  A caller  *)
(* whose compile failed corrects that object in place, taking out what is  *)
(* not a dict and giving a text to the buttons that lack one, and compiles *)
(* it again.                                                               *)
(***************************************************************************)
RECURSIVE RepairedItems(_)
RepairedItems(items) ==
    IF items = <<>> THEN <<>>
    ELSE LET x == Head(items)
         IN  (IF x.tag = "dict"
              THEN <<IF x.text = Absent THEN [x EXCEPT !.text = "Fixed"] ELSE x>>
              ELSE IF x.tag = "list" THEN <<List(RepairedItems(x.items))>>
              ELSE <<>>) \o RepairedItems(Tail(items))

Repaired(obj) ==
    IF obj.tag = "list" THEN List(RepairedItems(obj.items))
    ELSE IF obj.tag = "dict" /\ obj.text = Absent
    THEN [obj EXCEPT !.text = "Fixed"]
    ELSE obj

\* the corrected matrix has not been compiled in its present content
Repair(t, ref) ==
    /\ tasks[t].pc = "idle"
    /\ compiled[ref].n > 0
    /\ compiled[ref].ret.tag \in {"None", "False"}
    /\ Repaired(matrices[ref]) # matrices[ref]
    /\ matrices' = [matrices EXCEPT ![ref] = Repaired(@)]
    /\ compiled' = [compiled EXCEPT ![ref] = Compiled([tag |-> "never"], 0)]
    /\ UNCHANGED <<units, custom_map, nextTok, tasks, hookCalls, ops>>

(***************************************************************************)
(* The initial state: three units created earlier (outside this code), the *)
(* first with a compiled callback button whose token is registered, and a  *)
(* matrix m2 that a caller has built and not compiled yet.                 *)
(***************************************************************************)
Unit(imid, buttons, hook) ==
    [chat |-> "chat", message_id |-> "msg", inline_message_id |-> imid,
     buttons |-> buttons, force_me |-> "False", disable_security |-> "False",
     always_allow |-> "[]", on_unload |-> hook]

CbOpen == Button("Open", Absent, "h1", Absent, Absent, Absent)
CbClose == Button("Close", Absent, "h2", Absent, Absent, "True")
CbNoText == Button(Absent, Absent, "h3", Absent, Absent, Absent)
UrlGood == Button("Site", "http://h/a.jpg", Absent, Absent, Absent, Absent)
UrlBad == Button("Site", "not a url", Absent, Absent, Absent, Absent)
UrlCb == Button("Both", "http://h/a.jpg", "h4", Absent, Absent, Absent)
Inp == Button("Ask", Absent, Absent, "prompt", Absent, Absent)
Data == Button("Raw", Absent, Absent, Absent, "payload", Absent)
NoKind == Button("Plain", Absent, Absent, Absent, Absent, Absent)

\* the matrices a caller may hold, in the three shapes _normalize_markup takes
Catalogue ==
    { List(<<List(<<CbOpen, UrlGood>>), List(<<Inp>>)>>),
      CbClose,
      List(<<CbOpen, Data>>),
      List(<<List(<<CbOpen>>), List(<<CbNoText>>)>>),
      List(<<List(<<UrlBad, Data>>), List(<<NoKind>>)>>),
      List(<<CbOpen, NotDict>>),
      List(<<List(<<UrlCb>>), List(<<CbClose>>)>>),
      List(<<>>) }

StoredButton == [Button("Stored", Absent, "h0", Absent, Absent, Absent)
                    EXCEPT !._callback_data = 1]

Init ==
    /\ units = [u \in UIDs |->
                  IF u = "u1" THEN Unit("imU", "m1", "ok")
                  ELSE IF u = "u2" THEN Unit(Absent, "empty", "raises")
                  ELSE Unit("imV", "empty", Absent)]
    /\ custom_map = (1 :> Registration(StoredButton))
    /\ \E obj \in Catalogue :
          matrices = [m \in MatIds |->
                        IF m = "m1" THEN List(<<List(<<StoredButton>>)>>)
                        ELSE obj]
    /\ nextTok = 2
    /\ tasks = [t \in Tasks |-> IdleTask]
    /\ hookCalls = [u \in UIDs |-> 0]
    /\ compiled = [m \in MatIds |->
                     IF m = "m1"
                     THEN Compiled([tag |-> "markup",
                                    rows |-> <<<<Control("Stored", "callback_data", "", 1)>>>>],
                                   1)
                     ELSE Compiled([tag |-> "never"], 0)]
    /\ ops = 0

(***************************************************************************)
(* The arguments the callers pass.                                         *)
(***************************************************************************)
Kw(text, markup, media, flags, query, uid, imid) ==
    [text |-> text, reply_markup |-> markup,
     photo |-> media.photo, file |-> media.file, video |-> media.video,
     audio |-> media.audio, gif |-> media.gif, mime_type |-> media.mime_type,
     force_me |-> flags.force_me, disable_security |-> flags.disable_security,
     always_allow |-> flags.always_allow,
     disable_web_page_preview |-> "True",
     query |-> query, unit_uid |-> uid, inline_message_id |-> imid]

Media(photo, gif, file, video, audio, mime) ==
    [photo |-> photo, gif |-> gif, file |-> file, video |-> video,
     audio |-> audio, mime_type |-> mime]

NoMedia == Media(PyNone, PyNone, PyNone, PyNone, PyNone, PyNone)

Jpg == "http://h/a.jpg"
Gif == "http://h/a.gif"
Bad == "not a url"

\* media arguments that validation has to judge
MediaToValidate ==
    { NoMedia,
      Media(Jpg, PyNone, PyNone, PyNone, PyNone, PyNone),
      Media(Bad, PyNone, PyNone, PyNone, PyNone, PyNone),
      Media(NonStr, PyNone, PyNone, PyNone, PyNone, PyNone),
      Media("", PyNone, PyNone, PyNone, PyNone, PyNone),
      Media(PyNone, Bad, PyNone, PyNone, PyNone, PyNone),
      Media(PyNone, PyNone, Bad, PyNone, PyNone, "application/pdf"),
      Media(PyNone, PyNone, Jpg, PyNone, PyNone, "application/pdf"),
      Media(PyNone, PyNone, Jpg, PyNone, PyNone, PyNone),
      Media(PyNone, PyNone, PyNone, Bad, PyNone, PyNone),
      Media(PyNone, PyNone, PyNone, PyNone, Bad, PyNone),
      Media(Jpg, PyNone, PyNone, Jpg, PyNone, PyNone),
      Media(Jpg, Gif, PyNone, PyNone, PyNone, PyNone),
      Media(PyNone, Gif, PyNone, PyNone, Jpg, PyNone),
      Media(Bad, PyNone, PyNone, Jpg, PyNone, PyNone),
      Media(Jpg, PyNone, Jpg, PyNone, PyNone, "application/pdf") }

\* media arguments of edits that are dispatched
MediaToSend ==
    { NoMedia,
      Media(Jpg, PyNone, PyNone, PyNone, PyNone, PyNone),
      Media(Gif, PyNone, PyNone, PyNone, PyNone, PyNone),
      Media(PyNone, PyNone, PyNone, Jpg, PyNone, PyNone) }

Omitted == [force_me |-> PyNone, disable_security |-> PyNone,
            always_allow |-> PyNone]

Supplied == [force_me |-> "True", disable_security |-> "True",
             always_allow |-> "[7]"]

Queries == {NoQuery, Query(PyNone), Query("imQ")}

EditInputs ==
    { Kw(text, "m2", media, Supplied, Query("imQ"), "u1", imid) :
        text \in {"txt", NonStr}, media \in MediaToValidate,
        imid \in {PyNone, "imA"} }
    \cup
    { Kw("txt", markup, media, flags, query, uid, imid) :
        markup \in {PyNone, "m2"}, media \in MediaToSend,
        flags \in {Omitted, Supplied}, query \in Queries,
        uid \in {PyNone, "u1", "u2", MissingUid}, imid \in {PyNone, "imA"} }

\* the edits a caller makes after an earlier operation has returned
FollowUps ==
    { Kw("txt", "m2", NoMedia, Omitted, NoQuery, "u1", PyNone),
      Kw("txt", PyNone, NoMedia, Supplied, Query("imQ"), "u1", PyNone),
      Kw("txt", "m2", Media(Jpg, PyNone, PyNone, PyNone, PyNone, PyNone),
         Omitted, NoQuery, PyNone, "imA") }

InputsAt(n) == IF n = 0 THEN EditInputs ELSE FollowUps

Delays == 1..MaxDelay

AnswerErrors == {"InvalidQueryID", "TelegramAPIError"}

Next ==
    \E t \in Callers :
        \/ \E kw \in InputsAt(ops) : EditCall(t, kw)
        \/ EditOk(t)
        \/ \E d \in Delays : EditRetryAfter(t, d)
        \/ Wake(t)
        \/ EditNotModified(t)
        \/ EditIdInvalid(t)
        \/ EditError(t)
        \/ AnswerOk(t)
        \/ \E exc \in AnswerErrors : AnswerRaises(t, exc)
        \/ \E uid \in UIDs \cup {MissingUid} : Unload(t, uid)
        \/ \E uid \in UIDs \cup {MissingUid} : DeleteCall(t, uid)
        \/ DeleteOk(t)
        \/ DeleteFail(t)
        \/ \E ref \in MatIds : Compile(t, ref)
        \/ \E uid \in UIDs \cup {MissingUid} : CompileUnit(t, uid)
        \/ \E ref \in MatIds : Repair(t, ref)
        \/ Return(t)

Spec == Init /\ [][Next]_vars

(***************************************************************************)
(* The event loop resumes a coroutine whose awaited call has completed:    *)
(* the transport answers every edit call (lines 330, 381) in one of its    *)
(* five ways, asyncio.sleep (lines 346, 390) ends, query.answer (lines     *)
(* 343, 350, 394) completes.  The transport answers RetryAfter to one edit *)
(* at most MaxRetries times.  Wake is enabled exactly while the task       *)
(* sleeps and every Wake step ends the sleep, so weak fairness of Wake is  *)
(* the condition that the task is infinitely often not sleeping; it is     *)
(* written in that form, which needs no evaluation of ENABLED Wake.        *)
(***************************************************************************)
TransportAnswers(t) ==
    \/ EditOk(t)
    \/ \E d \in Delays : EditRetryAfter(t, d)
    \/ EditNotModified(t)
    \/ EditIdInvalid(t)
    \/ EditError(t)

AnswerCompletes(t) ==
    \/ AnswerOk(t)
    \/ \E exc \in AnswerErrors : AnswerRaises(t, exc)

\* the edits alone, on the arguments of FollowUps
NextLive ==
    \E t \in Callers :
        \/ \E kw \in FollowUps : EditCall(t, kw)
        \/ TransportAnswers(t)
        \/ Wake(t)
        \/ AnswerCompletes(t)
        \/ Return(t)

SpecLive ==
    /\ Init
    /\ [][NextLive]_vars
    /\ \A t \in Tasks : /\ WF_vars(TransportAnswers(t))
                        /\ []<>(tasks[t].pc # "sleeping")
                        /\ WF_vars(AnswerCompletes(t))

(***************************************************************************)
(* Two coroutines edit the unit u1 concurrently, each with a matrix of its *)
(* own.  Each runs up to its transport call (lines 250-338 have no await   *)
(* before it), is suspended there and in the sleep of a retry, and the     *)
(* transport completes the calls in any order.                             *)
(***************************************************************************)
ConcInputs ==
    { Kw("txt", markup, NoMedia, Omitted, NoQuery, "u1", PyNone) :
        markup \in MatIds }

NextConc ==
    \E t \in Tasks :
        \/ \E kw \in ConcInputs : EditCall(t, kw)
        \/ EditOk(t)
        \/ \E d \in Delays : EditRetryAfter(t, d)
        \/ Wake(t)
        \/ EditError(t)

SpecConc == Init /\ [][NextConc]_vars

(***************************************************************************)
(* Properties.                                                             *)
(***************************************************************************)
MediaArgs(kw) == <<kw.photo, kw.gif, kw.file, kw.video, kw.audio>>

\* the step in which task t is invoked as an edit
EditInvoked(t) == tasks[t].pc = "idle" /\ tasks'[t].op = "edit"

\* an edit the documented validation rejects: text is no string, a media
\* argument is given that is no valid URL, or two media arguments are given
MustReject(kw) ==
    \/ ~IsStr(kw.text)
    \/ \E i \in 1..5 : /\ MediaArgs(kw)[i] # PyNone
                       /\ ~(IsStr(MediaArgs(kw)[i]) /\ check_url(MediaArgs(kw)[i]))
    \/ Cardinality({i \in 1..5 : MediaArgs(kw)[i] # PyNone}) > 1

\* C1: every edit call that validation has to reject (text not a string; a
\* media argument set but not a valid URL; two or more media arguments)
\* returns the failure value, makes no transport call and leaves the unit
\* store and the callback registry as they were.
C1_RejectedEditHasNoEffect ==
    [][\A t \in Tasks :
          (EditInvoked(t) /\ MustReject(tasks'[t].kw))
              => /\ tasks'[t].pc = "done"
                 /\ tasks'[t].result = "False"
                 /\ tasks'[t].nCalls = 0
                 /\ units' = units
                 /\ custom_map' = custom_map]_vars

\* C2: Unload of a stored unit whose teardown hook raises returns failure,
\* raises nothing, and the unit is gone from the store afterwards.
C2_UnloadRemovesDespiteHookError ==
    \A t \in Tasks :
        (/\ tasks[t].pc = "done"
         /\ tasks[t].op = "unload"
         /\ tasks[t].uid \in DOMAIN tasks[t].pre.units
         /\ tasks[t].pre.units[tasks[t].uid].on_unload = "raises")
            => /\ tasks[t].result = "False"
               /\ tasks[t].exc = "none"
               /\ tasks[t].uid \notin DOMAIN units

\* a step of a task that runs Delete
DeleteStep(t) == tasks'[t] # tasks[t] /\ tasks'[t].op = "delete"

\* C3: Delete invokes the teardown hook and removes the unit only in the
\* step in which the remote delete has returned success; when the remote
\* delete fails, Delete returns failure, no hook runs and the unit stays in
\* the store with its fields unchanged.
C3_DeleteUnloadsOnlyAfterRemoteDelete ==
    [][\A t \in Tasks :
          DeleteStep(t)
              => /\ (units' # units \/ hookCalls' # hookCalls)
                        => /\ tasks[t].pc = "await_delete"
                           /\ tasks'[t].answer = "deleted"
                 /\ tasks'[t].answer = "delete_failed"
                        => /\ tasks'[t].result = "False"
                           /\ hookCalls' = hookCalls
                           /\ tasks'[t].uid \in DOMAIN units'
                           /\ units' = units]_vars

\* a Delete of the unit u1 went through: its hook ran once, the unit is gone
C3_Witness ==
    \E t \in Tasks :
        /\ tasks[t].pc = "done"
        /\ tasks[t].op = "delete"
        /\ tasks[t].uid = "u1"
        /\ tasks[t].answer = "deleted"
        /\ hookCalls["u1"] = 1
        /\ "u1" \notin DOMAIN units

\* C4: an edit whose transport call is answered by k rate-limited signals
\* and then one other answer issues exactly k+1 transport calls, sleeps once
\* per signal for the signalled duration, repeats the first call's text,
\* inline_message_id, media and keyboard in every call, and returns what the
\* last attempt yields.
C4_RetryRepeatsTheSameCall ==
    \A t \in Tasks :
        (tasks[t].op = "edit" /\ tasks[t].nCalls > 0)
            => /\ tasks[t].lastCall = tasks[t].firstCall
               /\ IF tasks[t].pc = "sleeping"
                  THEN /\ tasks[t].nCalls = tasks[t].nSignals
                       /\ tasks[t].nSleeps = tasks[t].nSignals - 1
                       /\ tasks[t].sleepFor = tasks[t].lastTimeout
                  ELSE /\ tasks[t].nCalls = tasks[t].nSignals + 1
                       /\ tasks[t].nSleeps = tasks[t].nSignals
               /\ tasks[t].pc = "done"
                     => /\ tasks[t].answer # "RetryAfter"
                        /\ tasks[t].answer = "ok" => tasks[t].result = "None"
                        /\ tasks[t].answer = "error" => tasks[t].result = "raise"

HasCallbackToken(markup) ==
    /\ markup.tag = "markup"
    /\ \E i \in DOMAIN markup.rows : \E j \in DOMAIN markup.rows[i] :
          markup.rows[i][j].kind = "callback_data" /\ markup.rows[i][j].tok # NoToken

\* an edit with a callback keyboard returned after two rate-limited answers
C4_Witness ==
    \E t \in Tasks :
        /\ tasks[t].pc = "done"
        /\ tasks[t].op = "edit"
        /\ tasks[t].nSignals >= 2
        /\ tasks[t].nCalls = tasks[t].nSignals + 1
        /\ tasks[t].answer = "ok"
        /\ HasCallbackToken(tasks[t].lastCall.reply_markup)

\* an edit for which no inline_message_id resolves: none passed, none stored
\* on the unit, none on the query or no query at all
NothingResolves(kw, us) ==
    /\ ~Set(kw.inline_message_id)
    /\ ~(UnitFound(kw, us) /\ us[kw.unit_uid].inline_message_id # Absent)
    /\ kw.query.inline_message_id = PyNone

\* C5: an edit that passes validation and for which no inline_message_id
\* resolves (including the case of no query) returns the failure value: it
\* raises nothing and makes no transport call.
C5_UnresolvedEditReturnsFailure ==
    \A t \in Tasks :
        (/\ tasks[t].pc = "done"
         /\ tasks[t].op = "edit"
         /\ Validate(tasks[t].kw) = "pass"
         /\ NothingResolves(tasks[t].kw, tasks[t].pre.units))
            => /\ tasks[t].result = "False"
               /\ tasks[t].nCalls = 0

\* the fields of a unit that an edit may write
Stored(unit) ==
    <<unit.buttons, unit.force_me, unit.disable_security, unit.always_allow>>

\* the edit of task t ended without a successful transport edit: aborted
\* for want of an inline_message_id, or answered stale or failed
EndedWithoutSuccess(t) ==
    /\ tasks[t].pc = "done"
    /\ tasks[t].op = "edit"
    /\ Validate(tasks[t].kw) = "pass"
    /\ \/ tasks[t].result = "False" /\ tasks[t].nCalls = 0
       \/ tasks[t].answer \in {"MessageNotModified", "MessageIdInvalid", "error"}

\* C6: an edit on a stored unit changes the unit's buttons, force_me,
\* disable_security or always_allow only when its transport call succeeded:
\* after an aborted, stale or failed edit the stored fields are as before.
C6_StoreWrittenOnlyOnSuccess ==
    \A t \in Tasks :
        (/\ EndedWithoutSuccess(t)
         /\ tasks[t].kw.unit_uid \in DOMAIN tasks[t].pre.units
         /\ tasks[t].kw.unit_uid \in DOMAIN units)
            => Stored(units[tasks[t].kw.unit_uid])
                   = Stored(tasks[t].pre.units[tasks[t].kw.unit_uid])

\* the keyboard compiled from the buttons a unit had stored
KeyboardOf(unit, ms, map, tok) ==
    _generate_markup(IF unit.buttons = "empty" THEN EmptyMarkup
                     ELSE ms[unit.buttons], map, tok).ret

\* C7: an edit on a stored unit that omits the button matrix keeps the
\* unit's stored buttons and sends the keyboard compiled from them; the
\* flags it omits keep their stored values too.
C7_OmittedFieldsAreKept ==
    \A t \in Tasks :
        (/\ tasks[t].op = "edit"
         /\ tasks[t].pc # "idle"
         /\ Validate(tasks[t].kw) = "pass"
         /\ tasks[t].kw.unit_uid \in DOMAIN tasks[t].pre.units
         /\ tasks[t].kw.unit_uid \in DOMAIN units)
            => LET uid == tasks[t].kw.unit_uid
                   old == tasks[t].pre.units[uid]
                   new == units[uid]
               IN  /\ tasks[t].kw.reply_markup = PyNone
                        => /\ new.buttons = old.buttons
                           /\ tasks[t].nCalls > 0
                                => tasks[t].firstCall.reply_markup
                                     = KeyboardOf(old, matrices, custom_map, nextTok)
                   /\ tasks[t].kw.force_me = PyNone
                        => new.force_me = old.force_me
                   /\ tasks[t].kw.disable_security = PyNone
                        => new.disable_security = old.disable_security
                   /\ tasks[t].kw.always_allow = PyNone
                        => new.always_allow = old.always_allow

\* C8: an edit answered message-not-modified (text edit) or
\* message-id-invalid (either kind) neither returns failure nor raises: it
\* makes no further transport edit call, answers the query at most once
\* (and only when there is one), and swallows whatever that answer raises.
C8_StaleAnswersAreAbsorbed ==
    \A t \in Tasks :
        (/\ tasks[t].pc = "done"
         /\ tasks[t].op = "edit"
         /\ \/ /\ tasks[t].answer = "MessageNotModified"
               /\ tasks[t].lastCall.method = "edit_message_text"
            \/ tasks[t].answer = "MessageIdInvalid")
            => /\ tasks[t].result = "None"
               /\ tasks[t].nCalls = tasks[t].nSignals + 1
               /\ tasks[t].nAnswers <= 1
               /\ tasks[t].kw.query.tag = "None" => tasks[t].nAnswers = 0

RECURSIVE AllTokenizedIn(_)
AllTokenizedIn(obj) ==
    IF obj.tag = "dict"
    THEN /\ obj.callback # Absent => obj._callback_data # NoToken
         /\ obj.input # Absent => obj._switch_query # NoToken
    ELSE IF obj.tag = "list"
    THEN \A i \in 1..Len(obj.items) : AllTokenizedIn(obj.items[i])
    ELSE TRUE

\* C9: compiling a matrix whose callback buttons all carry a token and whose
\* input buttons all carry a switch-query token adds nothing to the
\* registry, changes no registry entry and no token of the matrix, and
\* returns the keyboard the previous compile of that matrix returned.
C9_RecompileIsIdempotent ==
    [][\A ref \in MatIds :
          (compiled'[ref].n > compiled[ref].n /\ AllTokenizedIn(matrices[ref]))
              => /\ custom_map' = custom_map
                 /\ matrices' = matrices
                 /\ compiled[ref].n > 0
                       => compiled'[ref].ret = compiled[ref].ret]_vars

\* the caller's matrix was compiled twice, to a keyboard with a callback
\* token; the registry holds that token
C9_Witness ==
    /\ compiled["m2"].n >= 2
    /\ HasCallbackToken(compiled["m2"].ret)
    /\ AllTokenizedIn(matrices["m2"])
    /\ Cardinality(DOMAIN custom_map) >= 2

\* C10: an edit whose button matrix fails to compile is reported as an
\* explicit failure and makes no transport call.
C10_FailedCompileStopsTheEdit ==
    \A t \in Tasks :
        (/\ tasks[t].op = "edit"
         /\ tasks[t].pc # "idle"
         /\ Validate(tasks[t].kw) = "pass"
         /\ Set(tasks[t].kw.inline_message_id)
         /\ tasks[t].kw.reply_markup # PyNone
         /\ _generate_markup(matrices[tasks[t].kw.reply_markup],
                             custom_map, nextTok).ret.tag = "False")
            => /\ tasks[t].nCalls = 0
               /\ tasks[t].pc = "done"
               /\ tasks[t].result = "False"

\* the buttons of a caller's matrix, row by row
ButtonsOf(obj) == Flatten(RowsOf(_normalize_markup(obj)))

\* the controls of a keyboard, row by row
ControlsOf(markup) == Flatten(markup.rows)

Ambiguous(button) ==
    button.tag = "dict" /\ button.url # Absent /\ button.callback # Absent

\* the control is the translation of the button as a link or as a callback
ControlFrom(ctl, button) ==
    /\ ctl.text = button.text
    /\ \/ ctl.kind = "url" /\ ctl.str = button.url
       \/ ctl.kind = "callback_data" /\ ctl.tok = button._callback_data
                                     /\ ctl.tok # NoToken

\* C11: a button that carries both a url key and a callback key is never
\* translated into a control of the keyboard compile returns, neither as a
\* link nor as a callback.
C11_AmbiguousButtonIsRejected ==
    \A ref \in MatIds :
        (compiled[ref].ret.tag = "markup" /\ ~Falsy(matrices[ref]))
            => \A i \in DOMAIN ButtonsOf(matrices[ref]) :
                  Ambiguous(ButtonsOf(matrices[ref])[i])
                     => \A j \in DOMAIN ControlsOf(compiled[ref].ret) :
                           ~ControlFrom(ControlsOf(compiled[ref].ret)[j],
                                        ButtonsOf(matrices[ref])[i])

AnimationExt(url) == url \in {"http://h/a.gif", "http://h/a.mp4"}

\* C12: a media edit given a photo whose URL ends in .gif or .mp4 sends an
\* animation payload built from that URL, a photo with another extension
\* sends a photo payload; either way the payload carries the text as caption.
C12_GifPhotoIsSentAsAnimation ==
    \A t \in Tasks :
        (/\ tasks[t].op = "edit"
         /\ tasks[t].nCalls > 0
         /\ tasks[t].kw.photo # PyNone
         /\ check_url(tasks[t].kw.photo))
            => /\ tasks[t].firstCall.method = "edit_message_media"
               /\ tasks[t].firstCall.media
                    = InputMedia(IF AnimationExt(tasks[t].kw.photo)
                                 THEN "animation" ELSE "photo",
                                 tasks[t].kw.photo, tasks[t].kw.text)

\* the identifier the documented precedence yields: the explicit argument,
\* else the unit's stored one, else the query's
Precedence(kw, us) ==
    IF kw.inline_message_id # PyNone THEN kw.inline_message_id
    ELSE IF /\ kw.unit_uid \in DOMAIN us
            /\ us[kw.unit_uid].inline_message_id # Absent
         THEN us[kw.unit_uid].inline_message_id
         ELSE kw.query.inline_message_id

\* C13: the inline_message_id passed to the transport edit call is the
\* explicit argument if present, otherwise the unit's stored value if
\* present, otherwise the query's.
C13_IdPrecedence ==
    \A t \in Tasks :
        (tasks[t].op = "edit" /\ tasks[t].nCalls > 0)
            => /\ tasks[t].firstCall.inline_message_id
                    = Precedence(tasks[t].kw, tasks[t].pre.units)
               /\ tasks[t].lastCall.inline_message_id
                    = Precedence(tasks[t].kw, tasks[t].pre.units)

\* an explicit id won over the id stored on u1 and over the query's
C13_Witness ==
    \E t \in Tasks :
        /\ tasks[t].op = "edit"
        /\ tasks[t].nCalls > 0
        /\ tasks[t].kw.inline_message_id = "imA"
        /\ tasks[t].kw.unit_uid = "u1"
        /\ tasks[t].pre.units["u1"].inline_message_id = "imU"
        /\ tasks[t].kw.query.inline_message_id = "imQ"
        /\ tasks[t].firstCall.inline_message_id = "imA"

\* the step in which task t runs Unload
UnloadStep(t) == tasks[t].pc = "idle" /\ tasks'[t].op = "unload"

\* C14: Unload of a uid that is not in the store returns failure, raises
\* nothing, invokes no hook and leaves the store unchanged; so a second
\* Unload after a successful one fails and changes nothing.
C14_UnloadOfAbsentUidFails ==
    [][\A t \in Tasks :
          (UnloadStep(t) /\ tasks'[t].uid \notin DOMAIN units)
              => /\ tasks'[t].pc = "done"
                 /\ tasks'[t].result = "False"
                 /\ tasks'[t].exc = "none"
                 /\ hookCalls' = hookCalls
                 /\ units' = units]_vars

\* u1 was unloaded (its hook ran once) and a second Unload of u1 has failed
C14_Witness ==
    \E t \in Tasks :
        /\ tasks[t].pc = "done"
        /\ tasks[t].op = "unload"
        /\ tasks[t].uid = "u1"
        /\ "u1" \notin DOMAIN tasks[t].pre.units
        /\ tasks[t].result = "False"
        /\ hookCalls["u1"] = 1

\* the controls of the buttons of a row that were not dropped, in the
\* order of the buttons
RECURSIVE Shown(_)
Shown(row) ==
    IF row = <<>> THEN <<>>
    ELSE (IF Translate(Head(row)).act = "add"
          THEN <<Translate(Head(row)).ctl>> ELSE <<>>) \o Shown(Tail(row))

\* C16: the keyboard compile returns has one row per row of the matrix, in
\* the matrix's order, each holding the controls of the buttons of that row
\* that were not dropped, in the buttons' order; and the nested matrix
\* equivalent to a single Button or to a flat list compiles to the same
\* keyboard.
C16_OrderIsPreserved ==
    \A ref \in MatIds :
        compiled[ref].ret.tag = "markup"
            => LET rows == RowsOf(_normalize_markup(matrices[ref]))
               IN  /\ Len(compiled[ref].ret.rows) = Len(rows)
                   /\ \A i \in DOMAIN rows :
                          compiled[ref].ret.rows[i] = Shown(rows[i])
                   /\ _generate_markup(_normalize_markup(matrices[ref]),
                                       custom_map, nextTok).ret
                          = compiled[ref].ret

\* a flat list of two buttons was compiled to one row of two controls, a
\* callback control followed by a data control
C16_Witness ==
    /\ matrices["m2"].tag = "list"
    /\ Len(matrices["m2"].items) = 2
    /\ matrices["m2"].items[1].tag = "dict"
    /\ compiled["m2"].ret.tag = "markup"
    /\ Len(compiled["m2"].ret.rows) = 1
    /\ Len(compiled["m2"].ret.rows[1]) = 2
    /\ compiled["m2"].ret.rows[1][1].text = CbOpen.text
    /\ compiled["m2"].ret.rows[1][1].tok # NoToken
    /\ compiled["m2"].ret.rows[1][2].text = Data.text
    /\ compiled["m2"].ret.rows[1][2].tok = NoToken

\* C18: whenever Delete returns success the unit is absent from the store
\* afterwards; a Delete whose Unload step failed does not report success.
C18_DeleteSuccessMeansUnitGone ==
    \A t \in Tasks :
        (/\ tasks[t].pc = "done"
         /\ tasks[t].op = "delete"
         /\ tasks[t].result = "True")
            => tasks[t].uid \notin DOMAIN units

\* C20: no step removes a token from the registry or changes the handler a
\* registered token resolves to.
C20_RegistryOnlyGrows ==
    [][\A k \in DOMAIN custom_map :
          /\ k \in DOMAIN custom_map'
          /\ custom_map'[k].handler = custom_map[k].handler]_vars

\* u1 was unloaded or deleted and the token of its stored button still
\* resolves to the button's handler
C20_Witness ==
    /\ "u1" \notin DOMAIN units
    /\ hookCalls["u1"] = 1
    /\ StoredButton._callback_data \in DOMAIN custom_map
    /\ custom_map[StoredButton._callback_data].handler = StoredButton.callback

\* C17: whenever a compile has returned a keyboard, every callback control
\* of the keyboard carries a token that is registered, with the handler of
\* the button that produced the control; this also after compiles of the
\* same matrix that failed or returned None.
C17_EveryReturnedTokenIsRegistered ==
    \A ref \in MatIds :
        compiled[ref].ret.tag = "markup"
            => \A j \in DOMAIN ControlsOf(compiled[ref].ret) :
                  LET ctl == ControlsOf(compiled[ref].ret)[j]
                  IN  (ctl.kind = "callback_data" /\ ctl.tok # NoToken)
                         => /\ ctl.tok \in DOMAIN custom_map
                            /\ \E i \in DOMAIN ButtonsOf(matrices[ref]) :
                                  /\ ButtonsOf(matrices[ref])[i]._callback_data
                                        = ctl.tok
                                  /\ custom_map[ctl.tok].handler
                                        = ButtonsOf(matrices[ref])[i].callback

InFlight(t) ==
    tasks[t].op = "edit" /\ tasks[t].pc \in {"await_edit", "sleeping", "await_answer"}

\* C15: an edit that the transport rate-limits only finitely often ends;
\* and the retry itself never ends the edit: however many times the edit
\* was rate-limited, the end of the sleep issues the call once more.
C15_EditEndsUnlessRateLimitedForever ==
    /\ \A t \in Tasks : InFlight(t) ~> (tasks[t].pc = "done")
    /\ [][\A t \in Tasks :
             (tasks[t].pc = "sleeping" /\ tasks'[t] # tasks[t])
                 => /\ tasks'[t].pc = "await_edit"
                    /\ tasks'[t].nCalls = tasks[t].nCalls + 1
                    /\ tasks'[t].nSignals = tasks[t].nSignals
                    /\ tasks'[t].lastCall = tasks[t].lastCall]_vars

\* an edit was rate-limited as often as the transport may do it, called
\* again after every sleep, and returned
C15_Witness ==
    \E t \in Tasks :
        /\ tasks[t].op = "edit"
        /\ tasks[t].pc = "done"
        /\ tasks[t].nSignals = MaxRetries
        /\ tasks[t].nSleeps = MaxRetries
        /\ tasks[t].nCalls = MaxRetries + 1
        /\ tasks[t].result = "None"

\* C19: when the edits of a unit run concurrently and the last of them to
\* end is one whose transport call succeeded, the store holds the buttons
\* of that edit, the ones rendered remotely.
C19_StoreAgreesWithLastSuccess ==
    [][\A t \in Tasks :
          (/\ tasks[t].pc = "await_edit"
           /\ tasks'[t].pc = "done"
           /\ tasks'[t].answer = "ok"
           /\ \A o \in Tasks \ {t} :
                 /\ tasks[o].pc = "done"
                 /\ tasks[o].op = "edit"
                 /\ tasks[o].kw.unit_uid = tasks[t].kw.unit_uid)
              => units'[tasks[t].kw.unit_uid].buttons
                    = NormalizedRef(tasks[t].kw)]_vars

====
